---------------------------- MODULE Spec2Model ----------------------------
(***************************************************************************)
(* Model of the PowerPoint processor (src/main2.py, class                  *)
(* PowerPointProcessor: extraction, structuring, image stage, rendering)   *)
(* and of the slide scorer of src/main.py (process_pptx, get_slide_scores).*)
(*                                                                         *)
(* A Python str is modelled as a sequence of characters, each character a  *)
(* one-character TLA+ string, so that strip, split, join, the regular      *)
(* expressions and repr are computed character by character as the code    *)
(* computes them.  A Python list is a sequence, a dict a record.           *)
(***************************************************************************)
EXTENDS Integers, Sequences, FiniteSets, TLC

VARIABLES
    prs,                \* the deck: a sequence of slides, each a sequence of shapes
    slides_content,     \* result of extract_text_from_pptx / argument of structure_content
    structured_slides,  \* the list structure_content builds
    pc,                 \* position of the running call
    evaluated,          \* helpers evaluated by the last _analyze_and_structure_text call
    text,               \* argument of a helper called directly
    ret,                \* what the helper called directly returned
    self,               \* the processor's fields unsplash_api_key and openai_client
    files,              \* the paths that exist in the file system
    output,             \* the deck saved at the output path
    slide_texts,        \* main.py: result of extract_slide_texts
    scores,             \* main.py: the list get_slide_scores builds
    calls               \* main.py: outcome of each scoring call made so far

\* the state of the processor's surroundings, and of the scorer of main.py
processorVars == <<self, files, output>>

scorerVars == <<slide_texts, scores, calls>>

vars == <<prs, slides_content, structured_slides, pc, evaluated, text, ret,
          processorVars, scorerVars>>

---------------------------------------------------------------------------
(* Characters and character classes                                        *)

\* Characters str.strip() removes and the regular expression \s matches.
Whitespace == {" ", "\t", "\n"}

\* The regular expression \d.
Digits == {"0", "1", "2", "3", "4", "5", "6", "7", "8", "9"}

LowerLetters ==
    {"a", "b", "c", "d", "e", "f", "g", "h", "i", "j", "k", "l", "m",
     "n", "o", "p", "q", "r", "s", "t", "u", "v", "w", "x", "y", "z"}

UpperLetters ==
    {"A", "B", "C", "D", "E", "F", "G", "H", "I", "J", "K", "L", "M",
     "N", "O", "P", "Q", "R", "S", "T", "U", "V", "W", "X", "Y", "Z"}

\* The regular expression class [a-zA-Z].
Letters == LowerLetters \cup UpperLetters

\* The class [\‚Ä¢\-\*] as the source file spells it: the three characters
\* U+201A, U+00C4, U+00A2, the hyphen and the asterisk.
BulletSymbols == {"U+201A", "U+00C4", "U+00A2", "-", "*"}

---------------------------------------------------------------------------
(* str methods                                                             *)

RECURSIVE lstrip(_)
lstrip(s) ==
    IF s # <<>> /\ Head(s) \in Whitespace THEN lstrip(Tail(s)) ELSE s

RECURSIVE rstrip(_)
rstrip(s) ==
    IF s # <<>> /\ s[Len(s)] \in Whitespace
    THEN rstrip(SubSeq(s, 1, Len(s) - 1))
    ELSE s

\* str.strip()
strip(s) == rstrip(lstrip(s))

\* str.split(sep) for a one-character separator: "".split(sep) is [""].
RECURSIVE split(_, _)
split(s, sep) ==
    IF \E i \in 1..Len(s) : s[i] = sep
    THEN LET i == CHOOSE k \in 1..Len(s) :
                      s[k] = sep /\ \A j \in 1..(k - 1) : s[j] # sep
         IN  <<SubSeq(s, 1, i - 1)>> \o split(SubSeq(s, i + 1, Len(s)), sep)
    ELSE <<s>>

\* sep.join(list)
RECURSIVE join(_, _)
join(sep, list) ==
    IF list = <<>> THEN <<>>
    ELSE IF Len(list) = 1 THEN list[1]
    ELSE list[1] \o sep \o join(sep, Tail(list))

\* str.endswith(c) for a one-character suffix
endswith(s, c) == s # <<>> /\ s[Len(s)] = c

\* sub in s
Contains(s, sub) ==
    \/ sub = <<>>
    \/ \E i \in 1..(Len(s) - Len(sub) + 1) :
          s[i] = sub[1] /\ SubSeq(s, i, i + Len(sub) - 1) = sub

---------------------------------------------------------------------------
(* The list-marker patterns, matched at the start of a line (re.match).    *)
(* Each operator is the length of the match, 0 when there is none.         *)

\* ^[\‚Ä¢\-\*]\s
MatchSymbol(line) ==
    IF Len(line) >= 2 /\ line[1] \in BulletSymbols /\ line[2] \in Whitespace
    THEN 2 ELSE 0

\* length of the leading run of digits
RECURSIVE DigitRun(_)
DigitRun(s) ==
    IF s # <<>> /\ Head(s) \in Digits THEN 1 + DigitRun(Tail(s)) ELSE 0

\* ^\d+\.\s
MatchNumber(line) ==
    LET n == DigitRun(line)
    IN  IF n >= 1 /\ Len(line) >= n + 2
           /\ line[n + 1] = "." /\ line[n + 2] \in Whitespace
        THEN n + 2 ELSE 0

\* ^[a-zA-Z]\.\s
MatchLetter(line) ==
    IF Len(line) >= 3 /\ line[1] \in Letters
       /\ line[2] = "." /\ line[3] \in Whitespace
    THEN 3 ELSE 0

\* any of the three patterns matches
IsMarked(line) ==
    MatchSymbol(line) > 0 \/ MatchNumber(line) > 0 \/ MatchLetter(line) > 0

\* re.sub(pattern, '', line) for a pattern anchored at the start that matched n characters
RemovePrefix(line, n) == SubSeq(line, n + 1, Len(line))

---------------------------------------------------------------------------
(* Pattern classifier                                                      *)

\* re.search(r'\t.*\t', text) and re.search(r'\|.*\|', text): two occurrences
\* of c with no newline between them ('.' does not match a newline).
SearchPair(s, c) ==
    \E i \in 1..Len(s) : \E j \in (i + 1)..Len(s) :
        /\ s[i] = c
        /\ s[j] = c
        /\ \A k \in (i + 1)..(j - 1) : s[k] # "\n"

\* re.search(r':\s*\d+', text)
SearchColonNumber(s) ==
    \E i \in 1..Len(s) : \E j \in (i + 1)..Len(s) :
        /\ s[i] = ":"
        /\ s[j] \in Digits
        /\ \A k \in (i + 1)..(j - 1) : s[k] \in Whitespace

\* re.search(r'\d+\.\d+%', text)
SearchPercentage(s) ==
    \E i \in 2..Len(s) : \E j \in (i + 2)..Len(s) :
        /\ s[i - 1] \in Digits
        /\ s[i] = "."
        /\ s[j] = "%"
        /\ \A k \in (i + 1)..(j - 1) : s[k] \in Digits

_is_tabular_data(t) ==
    \/ SearchPair(t, "\t")
    \/ SearchPair(t, "|")
    \/ SearchColonNumber(t)
    \/ SearchPercentage(t)

\* sum(1 for line in lines if any(re.match(pattern, line.strip()) ...))
RECURSIVE CountMarked(_)
CountMarked(lines) ==
    IF lines = <<>> THEN 0
    ELSE (IF IsMarked(strip(Head(lines))) THEN 1 ELSE 0) + CountMarked(Tail(lines))

\* Faulty variant of _has_bullet_points: the threshold compared with >=.
has_bullet_points_inclusive(t) ==
    LET lines == split(t, "\n")
        bullet_lines == CountMarked(lines)
    IN  bullet_lines * 10 >= Len(lines) * 3

\* bullet_lines > len(lines) * 0.3.  The product is an IEEE double; for every
\* line count below 2^50 it compares with an integer as 3 * len(lines) / 10
\* does, so the test is stated over the integers.
_has_bullet_points(t) ==
    LET lines == split(t, "\n")
        bullet_lines == CountMarked(lines)
    IN  bullet_lines * 10 > Len(lines) * 3

---------------------------------------------------------------------------
(* Title extractor                                                         *)

TitleMaxLen == 80

SlideContentTitle == <<"S", "l", "i", "d", "e", " ", "C", "o", "n", "t", "e", "n", "t">>

KeyPointsTitle == <<"K", "e", "y", " ", "P", "o", "i", "n", "t", "s">>

EmptySlideTitle == <<"E", "m", "p", "t", "y", " ", "S", "l", "i", "d", "e">>

_extract_title(first_line) ==
    IF first_line = <<>> THEN SlideContentTitle
    ELSE IF Len(first_line) < TitleMaxLen /\ ~endswith(first_line, ".")
         THEN first_line
         ELSE KeyPointsTitle

---------------------------------------------------------------------------
(* Shape parsers                                                           *)

\* [f(x) for x in list], for f = strip
StripAll(list) == [i \in 1..Len(list) |-> strip(list[i])]

NonEmpty(s) == s # <<>>

\* length of the leading run of whitespace
RECURSIVE SpaceRun(_)
SpaceRun(s) ==
    IF s # <<>> /\ Head(s) \in Whitespace THEN 1 + SpaceRun(Tail(s)) ELSE 0

\* re.split(r'\s{2,}|:', line): cur is the field read so far
RECURSIVE resplit(_, _)
resplit(s, cur) ==
    IF s = <<>> THEN <<cur>>
    ELSE IF SpaceRun(s) >= 2
         THEN <<cur>> \o resplit(SubSeq(s, SpaceRun(s) + 1, Len(s)), <<>>)
    ELSE IF Head(s) = ":"
         THEN <<cur>> \o resplit(Tail(s), <<>>)
    ELSE resplit(Tail(s), Append(cur, Head(s)))

\* Faulty variant of SplitRow: the pipe is looked for before the tab.
SplitRowPipeFirst(line) ==
    IF \E i \in 1..Len(line) : line[i] = "|"
    THEN StripAll(split(line, "|"))
    ELSE IF \E i \in 1..Len(line) : line[i] = "\t"
    THEN StripAll(split(line, "\t"))
    ELSE SelectSeq(StripAll(resplit(line, <<>>)), NonEmpty)

\* the row one line of a table gives (the body of the for loop up to the test)
SplitRow(line) ==
    IF \E i \in 1..Len(line) : line[i] = "\t"
    THEN StripAll(split(line, "\t"))
    ELSE IF \E i \in 1..Len(line) : line[i] = "|"
    THEN StripAll(split(line, "|"))
    ELSE SelectSeq(StripAll(resplit(line, <<>>)), NonEmpty)

\* Faulty variant of TableLoop: every row is appended, whatever its length.
RECURSIVE TableLoopKeepAll(_, _)
TableLoopKeepAll(lines, table_data) ==
    IF lines = <<>> THEN table_data
    ELSE TableLoopKeepAll(Tail(lines), Append(table_data, SplitRow(Head(lines))))

\* the for loop over lines[1:], table_data being the rows appended so far
RECURSIVE TableLoop(_, _)
TableLoop(lines, table_data) ==
    IF lines = <<>> THEN table_data
    ELSE LET row == SplitRow(Head(lines))
         IN  IF Len(row) > 1
             THEN TableLoop(Tail(lines), Append(table_data, row))
             ELSE TableLoop(Tail(lines), table_data)

_parse_table_data(t) ==
    LET lines == SelectSeq(StripAll(split(t, "\n")), NonEmpty)
    IN  IF lines = <<>> THEN <<>> ELSE TableLoop(Tail(lines), <<>>)

ContentPoint == <<"C", "o", "n", "t", "e", "n", "t", " ", "p", "o", "i", "n", "t">>

\* lines.index(line) + 1, and 0 where Python raises ValueError
index(lines, line) ==
    IF \E j \in 1..Len(lines) : lines[j] = line
    THEN CHOOSE j \in 1..Len(lines) :
             lines[j] = line /\ \A k \in 1..(j - 1) : lines[k] # line
    ELSE 0

\* The for loop of _extract_bullet_points from its i-th iteration on, points
\* being the list built so far.  The result names the exception that left
\* the loop, if any.
RECURSIVE BulletLoop(_, _, _)
BulletLoop(lines, i, points) ==
    IF i > Len(lines) THEN [exc |-> "none", points |-> points]
    ELSE
      LET line == strip(lines[i])
          j == index(lines, line)
      IN  IF MatchSymbol(line) > 0
          THEN BulletLoop(lines, i + 1,
                          Append(points, RemovePrefix(line, MatchSymbol(line))))
          ELSE IF MatchNumber(line) > 0
          THEN BulletLoop(lines, i + 1,
                          Append(points, RemovePrefix(line, MatchNumber(line))))
          ELSE IF MatchLetter(line) > 0
          THEN BulletLoop(lines, i + 1,
                          Append(points, RemovePrefix(line, MatchLetter(line))))
          ELSE IF line = <<>>
          THEN BulletLoop(lines, i + 1, points)
          ELSE IF j = 0
          THEN [exc |-> "ValueError", points |-> points]
          ELSE IF ~(\E k \in 1..(j - 1) : IsMarked(strip(lines[k])))
          THEN BulletLoop(lines, i + 1, points)
          ELSE BulletLoop(lines, i + 1, Append(points, line))

\* [exc |-> "none", points |-> the list returned], or the exception raised
_extract_bullet_points(t) ==
    LET r == BulletLoop(split(t, "\n"), 1, <<>>)
    IN  IF r.exc = "none" /\ r.points = <<>>
        THEN [exc |-> "none", points |-> <<ContentPoint>>]
        ELSE r

\* text.split('\n\n')
RECURSIVE split2(_)
split2(s) ==
    IF \E i \in 1..(Len(s) - 1) : s[i] = "\n" /\ s[i + 1] = "\n"
    THEN LET i == CHOOSE k \in 1..(Len(s) - 1) :
                      /\ s[k] = "\n" /\ s[k + 1] = "\n"
                      /\ \A j \in 1..(k - 1) : ~(s[j] = "\n" /\ s[j + 1] = "\n")
         IN  <<SubSeq(s, 1, i - 1)>> \o split2(SubSeq(s, i + 2, Len(s)))
    ELSE <<s>>

\* Faulty variant of _structure_paragraphs: the first split only.
structure_paragraphs_first_split(t) == SelectSeq(StripAll(split2(t)), NonEmpty)

_structure_paragraphs(t) ==
    LET byBlank == SelectSeq(StripAll(split2(t)), NonEmpty)
        byLine == SelectSeq(StripAll(split(t, "\n")), NonEmpty)
    IN  IF byBlank # <<>> THEN byBlank
        ELSE IF byLine # <<>> THEN byLine
        ELSE <<t>>

---------------------------------------------------------------------------
(* Image-need predictor                                                    *)

image_keywords ==
    << <<"p", "r", "o", "c", "e", "s", "s">>,
       <<"w", "o", "r", "k", "f", "l", "o", "w">>,
       <<"d", "i", "a", "g", "r", "a", "m">>,
       <<"c", "h", "a", "r", "t">>,
       <<"g", "r", "a", "p", "h">>,
       <<"v", "i", "s", "u", "a", "l">>,
       <<"e", "x", "a", "m", "p", "l", "e">>,
       <<"c", "o", "m", "p", "a", "r", "i", "s", "o", "n">>,
       <<"a", "n", "a", "l", "y", "s", "i", "s">>,
       <<"d", "a", "t", "a">>,
       <<"s", "t", "a", "t", "i", "s", "t", "i", "c", "s">>,
       <<"a", "r", "c", "h", "i", "t", "e", "c", "t", "u", "r", "e">>,
       <<"d", "e", "s", "i", "g", "n">>,
       <<"m", "o", "d", "e", "l">>,
       <<"f", "r", "a", "m", "e", "w", "o", "r", "k">>,
       <<"s", "t", "r", "u", "c", "t", "u", "r", "e">>,
       <<"t", "i", "m", "e", "l", "i", "n", "e">>,
       <<"r", "o", "a", "d", "m", "a", "p">>,
       <<"o", "v", "e", "r", "v", "i", "e", "w">>,
       <<"s", "u", "m", "m", "a", "r", "y">>,
       <<"b", "u", "s", "i", "n", "e", "s", "s">>,
       <<"s", "t", "r", "a", "t", "e", "g", "y">>,
       <<"g", "r", "o", "w", "t", "h">>,
       <<"p", "e", "r", "f", "o", "r", "m", "a", "n", "c", "e">>,
       <<"r", "e", "s", "u", "l", "t", "s">>,
       <<"m", "e", "t", "r", "i", "c", "s">> >>

UpperSeq ==
    <<"A", "B", "C", "D", "E", "F", "G", "H", "I", "J", "K", "L", "M",
      "N", "O", "P", "Q", "R", "S", "T", "U", "V", "W", "X", "Y", "Z">>

LowerSeq ==
    <<"a", "b", "c", "d", "e", "f", "g", "h", "i", "j", "k", "l", "m",
      "n", "o", "p", "q", "r", "s", "t", "u", "v", "w", "x", "y", "z">>

\* str.lower(), on the letters A-Z
lower(s) ==
    [i \in 1..Len(s) |->
        IF s[i] \in UpperLetters
        THEN LowerSeq[CHOOSE k \in 1..Len(UpperSeq) : UpperSeq[k] = s[i]]
        ELSE s[i]]

\* what repr writes for one character inside the quote q
ReprChar(c, q) ==
    IF c = "\\" THEN <<"\\", "\\">>
    ELSE IF c = "\n" THEN <<"\\", "n">>
    ELSE IF c = "\t" THEN <<"\\", "t">>
    ELSE IF c = q THEN <<"\\", c>>
    ELSE <<c>>

RECURSIVE ReprBody(_, _)
ReprBody(s, q) ==
    IF s = <<>> THEN <<>> ELSE ReprChar(Head(s), q) \o ReprBody(Tail(s), q)

\* repr of a str: double quotes when it holds a single quote and no double quote
repr_str(s) ==
    LET q == IF (\E i \in 1..Len(s) : s[i] = "'") /\ ~(\E i \in 1..Len(s) : s[i] = "\"")
             THEN "\"" ELSE "'"
    IN  <<q>> \o ReprBody(s, q) \o <<q>>

\* repr of a list of str
repr_list(list) ==
    <<"[">> \o join(<<",", " ">>, [i \in 1..Len(list) |-> repr_str(list[i])]) \o <<"]">>

\* repr of a list of lists of str
repr_rows(rows) ==
    <<"[">> \o join(<<",", " ">>, [i \in 1..Len(rows) |-> repr_list(rows[i])]) \o <<"]">>

\* the tag 'type' carries, as characters
TypeChars(type) ==
    CASE type = "empty" -> <<"e", "m", "p", "t", "y">>
      [] type = "table" -> <<"t", "a", "b", "l", "e">>
      [] type = "bullet_list" -> <<"b", "u", "l", "l", "e", "t", "_", "l", "i", "s", "t">>
      [] type = "structured_text" ->
            <<"s", "t", "r", "u", "c", "t", "u", "r", "e", "d", "_", "t", "e", "x", "t">>

\* Faulty variant of str: the values of the title and of the body only,
\* without the keys and the variant tag.
str_of_text_values(sc) ==
    repr_str(sc.title) \o <<",", " ">>
    \o (CASE sc.type \in {"empty", "table"} -> repr_rows(sc.data)
          [] sc.type = "bullet_list" -> repr_list(sc.points)
          [] sc.type = "structured_text" -> repr_list(sc.content))

\* str(structured_content): the repr of the dict, keys in insertion order
str(sc) ==
    <<"{", "'", "t", "y", "p", "e", "'", ":", " ">> \o repr_str(TypeChars(sc.type))
    \o <<",", " ", "'", "t", "i", "t", "l", "e", "'", ":", " ">> \o repr_str(sc.title)
    \o (CASE sc.type \in {"empty", "table"} ->
                <<",", " ", "'", "d", "a", "t", "a", "'", ":", " ">> \o repr_rows(sc.data)
          [] sc.type = "bullet_list" ->
                <<",", " ", "'", "p", "o", "i", "n", "t", "s", "'", ":", " ">>
                \o repr_list(sc.points)
          [] sc.type = "structured_text" ->
                <<",", " ", "'", "c", "o", "n", "t", "e", "n", "t", "'", ":", " ">>
                \o repr_list(sc.content))
    \o <<"}">>

\* sum(1 for keyword in keywords if keyword in content_text)
RECURSIVE CountKeywords(_, _)
CountKeywords(keywords, content_text) ==
    IF keywords = <<>> THEN 0
    ELSE (IF Contains(content_text, Head(keywords)) THEN 1 ELSE 0)
         + CountKeywords(Tail(keywords), content_text)

MinKeywordMatches == 2

\* Faulty variant of _determine_image_need: the content type is not consulted.
determine_image_need_by_keywords(structured_content) ==
    CountKeywords(image_keywords, lower(str(structured_content))) >= MinKeywordMatches

_determine_image_need(structured_content) ==
    LET content_text == lower(str(structured_content))
        keyword_matches == CountKeywords(image_keywords, content_text)
    IN  IF structured_content.type \in {"table", "bullet_list"}
        THEN TRUE
        ELSE keyword_matches >= MinKeywordMatches

---------------------------------------------------------------------------
(* Structuring orchestrator                                                *)

\* stands for the value of a call that raised
NoValue == [type |-> "raised"]

DataTableLabel == <<"D", "a", "t", "a", " ", "T", "a", "b", "l", "e">>

ContentLabel == <<"C", "o", "n", "t", "e", "n", "t">>

\* content[0] if content else default
FirstOr(content, default) == IF content # <<>> THEN content[1] ELSE default

\* The three branches of _analyze_and_structure_text.  Each is
\* [exc, value, evaluated]: the exception raised, if any, the dict returned,
\* and the helpers evaluated on the way.
TableBranch(content, combined_text) ==
    [exc |-> "none",
     value |-> [type |-> "table",
                title |-> _extract_title(FirstOr(content, DataTableLabel)),
                data |-> _parse_table_data(combined_text)],
     evaluated |-> {"_is_tabular_data", "_extract_title", "_parse_table_data"}]

BulletBranch(content, combined_text) ==
    LET r == _extract_bullet_points(combined_text)
        ev == {"_is_tabular_data", "_has_bullet_points",
               "_extract_title", "_extract_bullet_points"}
    IN  IF r.exc # "none"
        THEN [exc |-> r.exc, value |-> NoValue, evaluated |-> ev]
        ELSE [exc |-> "none",
              value |-> [type |-> "bullet_list",
                         title |-> _extract_title(FirstOr(content, KeyPointsTitle)),
                         points |-> r.points],
              evaluated |-> ev]

ProseBranch(content, combined_text) ==
    [exc |-> "none",
     value |-> [type |-> "structured_text",
                title |-> _extract_title(FirstOr(content, ContentLabel)),
                content |-> _structure_paragraphs(combined_text)],
     evaluated |-> {"_is_tabular_data", "_has_bullet_points",
                    "_extract_title", "_structure_paragraphs"}]

\* Faulty variant of ClassifyAndParse: the bullet test consulted first.
ClassifyBulletsFirst(content) ==
    LET combined_text == join(<<"\n">>, content)
    IN  IF _has_bullet_points(combined_text)
        THEN BulletBranch(content, combined_text)
        ELSE IF _is_tabular_data(combined_text)
        THEN TableBranch(content, combined_text)
        ELSE ProseBranch(content, combined_text)

\* the if / elif / else over the combined text
ClassifyAndParse(content) ==
    LET combined_text == join(<<"\n">>, content)
    IN  IF _is_tabular_data(combined_text)
        THEN TableBranch(content, combined_text)
        ELSE IF _has_bullet_points(combined_text)
        THEN BulletBranch(content, combined_text)
        ELSE ProseBranch(content, combined_text)

\* Faulty variant of _analyze_and_structure_text: no test for empty content.
analyze_without_short_circuit(content) == ClassifyAndParse(content)

_analyze_and_structure_text(content) ==
    IF content = <<>>
    THEN [exc |-> "none",
          value |-> [type |-> "empty", title |-> EmptySlideTitle, data |-> <<>>],
          evaluated |-> {}]
    ELSE ClassifyAndParse(content)

---------------------------------------------------------------------------
(* Operations                                                              *)

\* a shape of a slide: has_text is hasattr(shape, "text")
Shape(t) == [has_text |-> TRUE, text |-> t]

NoTextShape == [has_text |-> FALSE, text |-> <<>>]

\* hasattr(shape, "text") and shape.text.strip()
KeepsShape(shape) == shape.has_text /\ strip(shape.text) # <<>>

\* slide_text after the inner loop of extract_text_from_pptx
SlideText(slide) ==
    LET kept == SelectSeq(slide, KeepsShape)
    IN  [i \in 1..Len(kept) |-> strip(kept[i].text)]

\* one iteration of the loop of extract_text_from_pptx
ExtractSlide ==
    /\ pc = "extract"
    /\ Len(slides_content) < Len(prs)
    /\ LET i == Len(slides_content) + 1
       IN  slides_content' =
               Append(slides_content,
                      [slide_number |-> i, content |-> SlideText(prs[i])])
    /\ UNCHANGED <<prs, structured_slides, pc, evaluated, text, ret,
                 processorVars, scorerVars>>

\* extract_text_from_pptx returns; process_presentation calls structure_content
ExtractReturn ==
    /\ pc = "extract"
    /\ Len(slides_content) = Len(prs)
    /\ pc' = "structure"
    /\ UNCHANGED <<prs, slides_content, structured_slides, evaluated, text, ret,
                 processorVars, scorerVars>>

\* one iteration of the loop of structure_content; an exception of
\* _analyze_and_structure_text leaves structure_content, which returns nothing
StructureSlide ==
    /\ pc = "structure"
    /\ Len(structured_slides) < Len(slides_content)
    /\ LET slide == slides_content[Len(structured_slides) + 1]
           r == _analyze_and_structure_text(slide.content)
       IN  /\ evaluated' = r.evaluated
           /\ IF r.exc # "none"
              THEN /\ pc' = "raised"
                   /\ UNCHANGED structured_slides
              ELSE /\ structured_slides' =
                         Append(structured_slides,
                                [slide_number |-> slide.slide_number,
                                 structured_content |-> r.value,
                                 needs_image |-> _determine_image_need(r.value)])
                   /\ UNCHANGED pc
    /\ UNCHANGED <<prs, slides_content, text, ret,
                 processorVars, scorerVars>>

\* structure_content returns structured_slides
StructureReturn ==
    /\ pc = "structure"
    /\ Len(structured_slides) = Len(slides_content)
    /\ pc' = "structured"
    /\ UNCHANGED <<prs, slides_content, structured_slides, evaluated, text, ret,
                 processorVars, scorerVars>>

\* ret before a helper is called
NoRet == [fn |-> "none", exc |-> "none", value |-> <<>>]

\* _extract_bullet_points(text) called directly
CallExtractBulletPoints ==
    /\ pc = "call"
    /\ LET r == _extract_bullet_points(text)
       IN  /\ ret' = [fn |-> "_extract_bullet_points", exc |-> r.exc, value |-> r.points]
           /\ pc' = IF r.exc = "none" THEN "returned" ELSE "raised"
    /\ UNCHANGED <<prs, slides_content, structured_slides, evaluated, text,
                 processorVars, scorerVars>>

\* _parse_table_data(text) called directly
CallParseTableData ==
    /\ pc = "call"
    /\ ret' = [fn |-> "_parse_table_data", exc |-> "none",
               value |-> _parse_table_data(text)]
    /\ pc' = "returned"
    /\ UNCHANGED <<prs, slides_content, structured_slides, evaluated, text,
                 processorVars, scorerVars>>

\* _has_bullet_points(text) called directly
CallHasBulletPoints ==
    /\ pc = "call"
    /\ ret' = [fn |-> "_has_bullet_points", exc |-> "none",
               value |-> _has_bullet_points(text)]
    /\ pc' = "returned"
    /\ UNCHANGED <<prs, slides_content, structured_slides, evaluated, text,
                 processorVars, scorerVars>>

\* _structure_paragraphs(text) called directly
CallStructureParagraphs ==
    /\ pc = "call"
    /\ ret' = [fn |-> "_structure_paragraphs", exc |-> "none",
               value |-> _structure_paragraphs(text)]
    /\ pc' = "returned"
    /\ UNCHANGED <<prs, slides_content, structured_slides, evaluated, text,
                   processorVars, scorerVars>>

---------------------------------------------------------------------------
(* Image stage and the rest of process_presentation                        *)
(*                                                                         *)
(* A path is a record.  Pillow's work on the local file system (Image.new, *)
(* draw, save) is taken to succeed; each remote call may fail.             *)

\* Python's None
None == [dir |-> "None"]

\* the deck process_presentation is asked to read
input_pptx_path == [dir |-> ".", name |-> "input.pptx"]

output_pptx_path == [dir |-> ".", name |-> "enhanced_presentation.pptx"]

pics_dir == [dir |-> "pics"]

\* os.path.join(pics_dir, f"{stem}{slide_number}{ext}")
ImagePath(stem, slide_number, ext) ==
    [dir |-> "pics", stem |-> stem, slide_number |-> slide_number, ext |-> ext]

_create_image_prompt(content) ==
    IF content.type = "table"
    THEN "business data analytics dashboard charts graphs professional"
    ELSE IF content.type = "bullet_list"
    THEN "business presentation infographic professional corporate strategy"
    ELSE "business professional office meeting presentation corporate"

\* What the remote services do during one _generate_image call:
\*   search    the Unsplash search: "error", "empty" (no results), "results"
\*   generation  the OpenAI image generation: "error", "ok"
\*   download  the download and decoding of the image: "error", "ok"
RemoteOutcomes ==
    [search : {"error", "empty", "results"},
     generation : {"error", "ok"},
     download : {"error", "ok"}]

_create_placeholder_image(prompt, slide_number) ==
    ImagePath("placeholder_image_slide_", slide_number, ".png")

_get_unsplash_image(prompt, slide_number, remote) ==
    IF remote.search = "error"
    THEN _create_placeholder_image(prompt, slide_number)
    ELSE IF remote.search = "results"
    THEN IF remote.download = "error"
         THEN _create_placeholder_image(prompt, slide_number)
         ELSE ImagePath("unsplash_image_slide_", slide_number, ".jpg")
    ELSE _create_placeholder_image(prompt, slide_number)

_generate_openai_image(prompt, slide_number, remote) ==
    IF remote.generation = "error" \/ remote.download = "error"
    THEN _create_placeholder_image(prompt, slide_number)
    ELSE ImagePath("openai_image_slide_", slide_number, ".jpg")

\* Faulty variant of _generate_image: a failed remote call yields no image.
generate_image_or_none(prompt, slide_number, remote) ==
    IF self.unsplash_api_key
    THEN IF remote.search = "results" /\ remote.download = "ok"
         THEN ImagePath("unsplash_image_slide_", slide_number, ".jpg")
         ELSE None
    ELSE IF self.openai_client
    THEN IF remote.generation = "ok" /\ remote.download = "ok"
         THEN ImagePath("openai_image_slide_", slide_number, ".jpg")
         ELSE None
    ELSE _create_placeholder_image(prompt, slide_number)

\* the path _generate_image returns; the file of that path has been saved
_generate_image(prompt, slide_number, remote) ==
    IF self.unsplash_api_key
    THEN _get_unsplash_image(prompt, slide_number, remote)
    ELSE IF self.openai_client
    THEN _generate_openai_image(prompt, slide_number, remote)
    ELSE _create_placeholder_image(prompt, slide_number)

\* Faulty variant of WithImagePath: the record is rebuilt around the image,
\* its content reduced to the variant tag.
image_record_without_content(slide, image_path) ==
    [slide_number |-> slide.slide_number,
     structured_content |-> [type |-> slide.structured_content.type],
     needs_image |-> slide.needs_image,
     image_path |-> image_path]

\* slide after slide['image_path'] = image_path
WithImagePath(slide, image_path) ==
    [slide_number |-> slide.slide_number,
     structured_content |-> slide.structured_content,
     needs_image |-> slide.needs_image,
     image_path |-> image_path]

HasImagePath(slide) == "image_path" \in DOMAIN slide

\* the records generate_images_for_slides has been through
ImagesDone ==
    Cardinality({i \in 1..Len(structured_slides) : HasImagePath(structured_slides[i])})

\* Presentation(file_path), the first statement of extract_text_from_pptx
OpenPresentation ==
    /\ pc = "open"
    /\ pc' = IF input_pptx_path \in files THEN "extract" ELSE "raised"
    /\ UNCHANGED <<prs, slides_content, structured_slides, evaluated, text, ret,
                   processorVars, scorerVars>>

\* process_presentation calls generate_images_for_slides(structured_slides)
CallGenerateImages ==
    /\ pc = "structured"
    /\ pc' = "images"
    /\ UNCHANGED <<prs, slides_content, structured_slides, evaluated, text, ret,
                   processorVars, scorerVars>>

\* one iteration of the loop of generate_images_for_slides
GenerateImage ==
    /\ pc = "images"
    /\ ImagesDone < Len(structured_slides)
    /\ LET i == ImagesDone + 1
           slide == structured_slides[i]
       IN  IF slide.needs_image
           THEN \E remote \in RemoteOutcomes :
                  LET image_prompt == _create_image_prompt(slide.structured_content)
                      image_path == _generate_image(image_prompt, slide.slide_number, remote)
                  IN  /\ structured_slides' =
                            [structured_slides EXCEPT ![i] = WithImagePath(slide, image_path)]
                      /\ files' = files \cup {pics_dir, image_path}
           ELSE /\ structured_slides' =
                      [structured_slides EXCEPT ![i] = WithImagePath(slide, None)]
                /\ UNCHANGED files
    /\ UNCHANGED <<prs, slides_content, pc, evaluated, text, ret, self, output, scorerVars>>

\* generate_images_for_slides returns; create_presentation_from_template is called
ImagesReturn ==
    /\ pc = "images"
    /\ ImagesDone = Len(structured_slides)
    /\ pc' = "render"
    /\ UNCHANGED <<prs, slides_content, structured_slides, evaluated, text, ret,
                   processorVars, scorerVars>>

\* the slide create_presentation_from_template adds for a record: picture says
\* whether _add_image_to_slide was called; the slide's text is left out
RenderedSlide(slide_data) ==
    [slide_number |-> slide_data.slide_number,
     picture |-> slide_data.image_path # None /\ slide_data.image_path \in files]

\* create_presentation_from_template: one slide per record, saved at output_path;
\* add_fade_to_edges saves a faded copy beside each image it is given
CreatePresentation ==
    /\ pc = "render"
    /\ output' = [i \in 1..Len(structured_slides) |-> RenderedSlide(structured_slides[i])]
    /\ files' = files \cup {output_pptx_path}
                      \cup {[dir |-> "pics", faded |-> structured_slides[i].image_path] :
                              i \in {j \in 1..Len(structured_slides) :
                                       RenderedSlide(structured_slides[j]).picture}}
    /\ pc' = "summary"
    /\ UNCHANGED <<prs, slides_content, structured_slides, evaluated, text, ret,
                   self, scorerVars>>

InPics(path) == path.dir = "pics"

\* the end of process_presentation: shutil.rmtree("pics") when pics exists, and
\* its failure ignored; process_presentation returns the output path
CleanUp ==
    /\ pc = "summary"
    /\ \/ files' = {path \in files : ~InPics(path)}
       \/ pics_dir \in files /\ files' = files
    /\ pc' = "done"
    /\ UNCHANGED <<prs, slides_content, structured_slides, evaluated, text, ret,
                   self, output, scorerVars>>

---------------------------------------------------------------------------

(* main.py: scoring and the rest of process_pptx                           *)

NoTextContent == <<"N", "o", " ", "t", "e", "x", "t", " ", "c", "o", "n", "t", "e", "n", "t">>

\* one element of the list extract_slide_texts builds
SlideTextOrDefault(slide) ==
    LET joined == join(<<"\n">>, SlideText(slide))
    IN  IF joined # <<>> THEN joined ELSE NoTextContent

extract_slide_texts(deck) == [i \in 1..Len(deck) |-> SlideTextOrDefault(deck[i])]

BatchSize == 3

NeutralScore == 5

\* s.replace('.', '')
RemoveDots(s) == SelectSeq(s, LAMBDA c : c # ".")

\* s.isdigit(), for ASCII text
isdigit(s) == s # <<>> /\ \A i \in 1..Len(s) : s[i] \in Digits

DigitValue(c) == CHOOSE d \in 0..9 : ToString(d) = c

\* int(s) of a string of digits
RECURSIVE int(_)
int(s) == IF s = <<>> THEN 0 ELSE 10 * int(SubSeq(s, 1, Len(s) - 1)) + DigitValue(s[Len(s)])

\* [int(s.strip()) for s in score_str.replace('.', '').split(",") if s.strip().isdigit()]
ParseScores(score_str) ==
    LET parts == StripAll(split(RemoveDots(score_str), ","))
        kept == SelectSeq(parts, isdigit)
    IN  [i \in 1..Len(kept) |-> int(kept[i])]

\* [value] * n, which is empty for n <= 0
Repeat(value, n) == [i \in 1..n |-> value]

\* slide_texts[i:i+3], the batch that starts at the 0-based index i
Batch(texts, i) == SubSeq(texts, i + 1, IF i + BatchSize < Len(texts) THEN i + BatchSize ELSE Len(texts))

\* what one iteration extends scores with: outcome is what the scoring call
\* did, an exception raised or a reply with this content
BatchScores(batch, outcome) ==
    IF outcome.raised
    THEN Repeat(NeutralScore, Len(batch))
    ELSE LET batch_scores == ParseScores(strip(outcome.content))
         IN  batch_scores \o Repeat(NeutralScore, Len(batch) - Len(batch_scores))

\* replies of the scorer: as asked for, with spaces, too few numbers, too
\* many, a decimal and a word, nothing
ScorerReplies ==
    { <<"7", ",", "8", ",", "9">>,
      <<" ", "6", ",", " ", "1", "0", "\n">>,
      <<"3">>,
      <<"1", ",", "2", ",", "3", ",", "4">>,
      <<"8", ".", "5", ",", "x">>,
      <<>> }

ScorerOutcomes ==
    {[raised |-> TRUE, content |-> <<>>]}
        \cup {[raised |-> FALSE, content |-> c] : c \in ScorerReplies}

\* one iteration of the loop of get_slide_scores
ScoreBatch ==
    /\ pc = "score"
    /\ BatchSize * Len(calls) < Len(slide_texts)
    /\ \E outcome \in ScorerOutcomes :
          /\ scores' = scores \o BatchScores(Batch(slide_texts, BatchSize * Len(calls)), outcome)
          /\ calls' = Append(calls, outcome)
    /\ UNCHANGED <<prs, slides_content, structured_slides, pc, evaluated, text, ret,
                   processorVars, slide_texts>>

\* return scores[:len(slide_texts)]
ScoresReturn ==
    /\ pc = "score"
    /\ BatchSize * Len(calls) >= Len(slide_texts)
    /\ ret' = [fn |-> "get_slide_scores", exc |-> "none",
               value |-> SubSeq(scores, 1, Len(slide_texts))]
    /\ pc' = "scored"
    /\ UNCHANGED <<prs, slides_content, structured_slides, evaluated, text,
                   processorVars, scorerVars>>

\* the start of process_pptx: the two checks, then extract_slide_texts and
\* the call of get_slide_scores
ProcessPptx ==
    /\ pc = "process_pptx"
    /\ IF input_pptx_path \notin files
       THEN /\ ret' = [fn |-> "process_pptx", exc |-> "FileNotFoundError", value |-> <<>>]
            /\ pc' = "raised"
            /\ UNCHANGED slide_texts
       ELSE IF Len(prs) = 0
       THEN /\ ret' = [fn |-> "process_pptx", exc |-> "ValueError", value |-> <<>>]
            /\ pc' = "raised"
            /\ UNCHANGED slide_texts
       ELSE /\ slide_texts' = extract_slide_texts(prs)
            /\ pc' = "score"
            /\ UNCHANGED ret
    /\ UNCHANGED <<prs, slides_content, structured_slides, evaluated, text,
                   processorVars, scores, calls>>

score_threshold == 6

MaxBulletLineLen == 80

\* prettify_text(text): the kind of slide and its content
prettify_text(t) ==
    LET lines == SelectSeq(StripAll(split(t, "\n")), NonEmpty)
    IN  IF Len(lines) = 1
        THEN [kind |-> "title", content |-> <<lines[1]>>]
        ELSE IF \A i \in 1..Len(lines) : Len(lines[i]) > MaxBulletLineLen
        THEN [kind |-> "body", content |-> lines]
        ELSE [kind |-> "bullets", content |-> lines]

\* [i for i, s in enumerate(scores) if s >= score_threshold], or every index
keep_indices(slide_scores, deck) ==
    LET kept == {i \in 0..(Len(slide_scores) - 1) : slide_scores[i + 1] >= score_threshold}
    IN  IF kept # {} THEN kept ELSE 0..(Len(deck) - 1)

\* the elements of a set of numbers in increasing order
RECURSIVE Sorted(_)
Sorted(S) ==
    IF S = {} THEN <<>>
    ELSE LET least == CHOOSE x \in S : \A y \in S : x <= y
         IN  <<least>> \o Sorted(S \ {least})

\* the rest of process_pptx: keep_indices and build_neat_pptx, which adds one
\* slide per kept index; every third of them gets the picture when a URL was
\* found and its download succeeds (with_picture: the slides where it did)
BuildNeatPptx ==
    /\ pc = "scored"
    /\ LET valid_max == Len(prs) - 1
           filtered_indices ==
               Sorted({idx \in keep_indices(ret.value, prs) : 0 <= idx /\ idx <= valid_max})
       IN  \E with_picture \in SUBSET {i \in 1..Len(filtered_indices) : (i - 1) % 3 = 0} :
              output' = [i \in 1..Len(filtered_indices) |->
                           LET pretty == prettify_text(slide_texts[filtered_indices[i] + 1])
                           IN  [index |-> filtered_indices[i],
                                kind |-> pretty.kind,
                                content |-> pretty.content,
                                picture |-> i \in with_picture]]
    /\ files' = files \cup {output_pptx_path}
    /\ pc' = "done"
    /\ UNCHANGED <<prs, slides_content, structured_slides, evaluated, text, ret,
                   self, scorerVars>>

---------------------------------------------------------------------------

(* Inputs                                                                  *)

\* all strings over alphabet of length n, and of length at most n
RECURSIVE StringsOfLen(_, _)
StringsOfLen(alphabet, n) ==
    IF n = 0 THEN {<<>>}
    ELSE {Append(s, c) : s \in StringsOfLen(alphabet, n - 1), c \in alphabet}

StringsUpTo(alphabet, n) == UNION {StringsOfLen(alphabet, k) : k \in 0..n}

\* marks, in a generated input, where one text of a list ends and the next
\* begins; it is no character of any text
ShapeBreak == "<shape>"

\* the lists of texts whose characters and breaks number at most n
Contents(alphabet, n) ==
    {<<>>} \cup {split(r, ShapeBreak) : r \in StringsUpTo(alphabet \cup {ShapeBreak}, n)}

\* all sequences over pool of length 1..n
SeqsUpTo(pool, n) == UNION {[1..k -> pool] : k \in 1..n}

\* the end-to-end table scenario
Q1Title == <<"Q", "1", " ", "R", "e", "p", "o", "r", "t">>

Q1Lines ==
    << Q1Title,
       <<"R", "e", "v", "e", "n", "u", "e", ":", " ", "5", "0", "0">>,
       <<"C", "o", "s", "t", ":", " ", "3", "0", "0">>,
       <<"M", "a", "r", "g", "i", "n", ":", " ", "4", "0", ".", "0", "%">> >>

Q1Text == join(<<"\n">>, Q1Lines)

Q1Rows ==
    << << <<"R", "e", "v", "e", "n", "u", "e">>, <<"5", "0", "0">> >>,
       << <<"C", "o", "s", "t">>, <<"3", "0", "0">> >>,
       << <<"M", "a", "r", "g", "i", "n">>, <<"4", "0", ".", "0", "%">> >> >>

\* lines grouped into shape texts: cut[i] says a shape ends after line i
RECURSIVE GroupLines(_, _, _)
GroupLines(lines, cut, cur) ==
    IF lines = <<>> THEN <<cur>>
    ELSE IF Len(lines) = 1 THEN <<cur \o Head(lines)>>
    ELSE IF Head(cut)
         THEN <<cur \o Head(lines)>> \o GroupLines(Tail(lines), Tail(cut), <<>>)
         ELSE GroupLines(Tail(lines), Tail(cut), cur \o Head(lines) \o <<"\n">>)

\* the slides that show the scenario's four lines, in every division into shapes
Q1Slides ==
    {LET texts == GroupLines(Q1Lines, cut, <<>>)
     IN  [i \in 1..Len(texts) |-> Shape(texts[i])]
       : cut \in [1..(Len(Q1Lines) - 1) -> BOOLEAN]}

\* slides of the other kinds: without usable text, bulleted, tabular, prose
OtherSlides ==
    { <<>>,
      <<NoTextShape>>,
      <<Shape(<<" ", "\n", "\t">>)>>,
      <<NoTextShape, Shape(<<>>), Shape(<<" ">>)>>,
      <<Shape(<<"T", "o", "p", "i", "c", "s">>), NoTextShape,
        Shape(<<" ", "-", " ", "o", "n", "e", "\n", "*", " ", "t", "w", "o", "\n">>)>>,
      <<Shape(<<"-", " ", "a", "\n", " ", "b">>)>>,
      <<Shape(<<"-", " ", "a", "|", "b", "|", "c", "\n", "-", " ", "d">>)>>,
      <<Shape(<<"H", "i", ".">>), Shape(<<"a", "b", "c", "\n", "\n", "d", "e">>)>>,
      <<Shape(<<"O", "u", "r", " ", "D", "a", "t", "a">>)>>,
      <<Shape(<<"C", "H", "A", "R", "T">>), Shape(<<"a", " ", "m", "o", "d", "e", "l">>)>>,
      <<Shape(<<"a", "\t", "i", "m", "e", "l", "i", "n", "e">>)>>,
      <<Shape(<<"s", "t", "r", "u", "c", "t", "u", "r", "e">>)>> }

SlidePool == Q1Slides \cup OtherSlides

MaxSlides == 2

Decks == {<<>>} \cup SeqsUpTo(SlidePool, MaxSlides)

---------------------------------------------------------------------------
(* Specifications                                                          *)

\* a processor without API keys beside a readable input deck, nothing saved yet
InitProcessor ==
    /\ self = [unsplash_api_key |-> FALSE, openai_client |-> FALSE]
    /\ files = {input_pptx_path}
    /\ output = <<>>

\* get_slide_scores not called
InitScorer ==
    /\ slide_texts = <<>>
    /\ scores = <<>>
    /\ calls = <<>>

\* process_presentation once the input deck has been opened
Init ==
    /\ prs \in Decks
    /\ slides_content = <<>>
    /\ structured_slides = <<>>
    /\ pc = "extract"
    /\ evaluated = {}
    /\ text = <<>>
    /\ ret = NoRet
    /\ InitProcessor
    /\ InitScorer

Next ==
    \/ ExtractSlide
    \/ ExtractReturn
    \/ StructureSlide
    \/ StructureReturn

Spec == Init /\ [][Next]_vars

\* structure_content called with one slide of any content
MaxContentLen == 6

StructureAlphabet == {"-", " ", "a", "\n"}

InitStructure ==
    /\ prs = <<>>
    /\ \E c \in Contents(StructureAlphabet, MaxContentLen) :
          slides_content = <<[slide_number |-> 1, content |-> c]>>
    /\ structured_slides = <<>>
    /\ pc = "structure"
    /\ evaluated = {}
    /\ text = <<>>
    /\ ret = NoRet
    /\ InitProcessor
    /\ InitScorer

NextStructure ==
    \/ StructureSlide
    \/ StructureReturn

SpecStructure == InitStructure /\ [][NextStructure]_vars

\* structure_content called with one slide whose text may carry tabular signals
MaxSignalLen == 4

SignalAlphabets ==
    { {"-", " ", "|", "\n"},
      {"-", " ", ":", "5", "\n"},
      {"-", " ", "\t", "\n"},
      {"5", ".", "%", ":"} }

InitPriority ==
    /\ prs = <<>>
    /\ \E alphabet \in SignalAlphabets : \E c \in Contents(alphabet, MaxSignalLen) :
          slides_content = <<[slide_number |-> 1, content |-> c]>>
    /\ structured_slides = <<>>
    /\ pc = "structure"
    /\ evaluated = {}
    /\ text = <<>>
    /\ ret = NoRet
    /\ InitProcessor
    /\ InitScorer

SpecPriority == InitPriority /\ [][NextStructure]_vars

\* a helper called directly on a text
InitCall(texts) ==
    /\ prs = <<>>
    /\ slides_content = <<>>
    /\ structured_slides = <<>>
    /\ pc = "call"
    /\ evaluated = {}
    /\ text \in texts
    /\ ret = NoRet
    /\ InitProcessor
    /\ InitScorer

\* _extract_bullet_points
MaxBulletLen == 6

BulletAlphabet == {"-", " ", "a", "\n", "1", "."}

OverviewText ==
    join(<<"\n">>, << <<"O", "v", "e", "r", "v", "i", "e", "w">>,
                      <<"-", " ", "P", "o", "i", "n", "t", " ", "A">>,
                      <<"-", " ", "P", "o", "i", "n", "t", " ", "B">> >>)

OverviewPoints ==
    << <<"P", "o", "i", "n", "t", " ", "A">>, <<"P", "o", "i", "n", "t", " ", "B">> >>

InitBullets == InitCall(StringsUpTo(BulletAlphabet, MaxBulletLen) \cup {OverviewText})

NextBullets == CallExtractBulletPoints

SpecBullets == InitBullets /\ [][NextBullets]_vars

\* _parse_table_data
MaxTableLen == 6

TableAlphabet == {"a", "|", ":", " ", "\n"}

InitTable == InitCall(StringsUpTo(TableAlphabet, MaxTableLen))

NextTable == CallParseTableData

SpecTable == InitTable /\ [][NextTable]_vars

\* _has_bullet_points on blocks of lines
MaxLines == 10

LinePool == {<<"-", " ", "a">>, <<"a">>, <<>>}

InitThreshold ==
    InitCall({join(<<"\n">>, lines) : lines \in SeqsUpTo(LinePool, MaxLines)})

NextThreshold == CallHasBulletPoints

SpecThreshold == InitThreshold /\ [][NextThreshold]_vars

---------------------------------------------------------------------------
(* process_presentation as a whole                                         *)

MaxProcessSlides == 2

\* slides of each kind: no shape, prose, bulleted, tabular, and one whose
\* bullet extraction raises
ProcessPool ==
    { <<>>,
      <<Shape(<<"H", "i", ".">>), Shape(<<"a", "b">>)>>,
      <<Shape(<<"-", " ", "a", "\n", "-", " ", "b">>)>>,
      <<Shape(<<"a", "|", "b", "|", "c", "\n", "d", "|", "e">>)>>,
      <<Shape(<<"-", " ", "a", "\n", " ", "b">>)>> }

ProcessDecks == {<<>>} \cup SeqsUpTo(ProcessPool, MaxProcessSlides)

\* process_presentation(input_pptx_path) on a processor with any API keys,
\* the input file present or missing
InitProcess ==
    /\ prs \in ProcessDecks
    /\ slides_content = <<>>
    /\ structured_slides = <<>>
    /\ pc = "open"
    /\ evaluated = {}
    /\ text = <<>>
    /\ ret = NoRet
    /\ self \in [unsplash_api_key : BOOLEAN, openai_client : BOOLEAN]
    /\ files \in {{}, {input_pptx_path}}
    /\ output = <<>>
    /\ InitScorer

NextProcess ==
    \/ OpenPresentation
    \/ ExtractSlide
    \/ ExtractReturn
    \/ StructureSlide
    \/ StructureReturn
    \/ CallGenerateImages
    \/ GenerateImage
    \/ ImagesReturn
    \/ CreatePresentation
    \/ CleanUp

SpecProcess == InitProcess /\ [][NextProcess]_vars

---------------------------------------------------------------------------

(* process_pptx of main.py as a whole                                      *)

MaxScoredSlides == 4

\* slides with one line of text, with two, and with none
ScoredPool ==
    { <<Shape(<<"a">>)>>,
      <<Shape(<<"a">>), Shape(<<" ", "b", "\n">>)>>,
      <<NoTextShape>> }

ScoredDecks == {<<>>} \cup SeqsUpTo(ScoredPool, MaxScoredSlides)

\* process_pptx(input_path, output_path), the input file present or missing
InitPptx ==
    /\ prs \in ScoredDecks
    /\ slides_content = <<>>
    /\ structured_slides = <<>>
    /\ pc = "process_pptx"
    /\ evaluated = {}
    /\ text = <<>>
    /\ ret = NoRet
    /\ self = [unsplash_api_key |-> FALSE, openai_client |-> FALSE]
    /\ files \in {{}, {input_pptx_path}}
    /\ output = <<>>
    /\ InitScorer

NextPptx ==
    \/ ProcessPptx
    \/ ScoreBatch
    \/ ScoresReturn
    \/ BuildNeatPptx

SpecPptx == InitPptx /\ [][NextPptx]_vars

---------------------------------------------------------------------------

(* _extract_bullet_points on blocks of lines                               *)

MaxBulletLines == 4

\* lines: unmarked, marked by a symbol, indented, marked by a number, blank
BulletLinePool ==
    { <<"a">>, <<"-", " ", "a">>, <<" ", "b">>, <<"1", ".", " ", "c">>, <<>> }

InitBulletLines ==
    InitCall({join(<<"\n">>, lines) : lines \in SeqsUpTo(BulletLinePool, MaxBulletLines)})

SpecBulletLines == InitBulletLines /\ [][NextBullets]_vars

---------------------------------------------------------------------------

(* _parse_table_data on rows with every separator                          *)

MaxRowLen == 5

SeparatorAlphabet == {"a", "\t", "|", ":", " ", "\n"}

\* a title line, then rows over the separators
InitSeparators ==
    InitCall({<<"h", "\n">> \o rows : rows \in StringsUpTo(SeparatorAlphabet, MaxRowLen)})

SpecSeparators == InitSeparators /\ [][NextTable]_vars

---------------------------------------------------------------------------

(* _structure_paragraphs                                                   *)

MaxParagraphLen == 7

ParagraphAlphabet == {"a", " ", "\n"}

InitParagraphs == InitCall(StringsUpTo(ParagraphAlphabet, MaxParagraphLen))

NextParagraphs == CallStructureParagraphs

SpecParagraphs == InitParagraphs /\ [][NextParagraphs]_vars

---------------------------------------------------------------------------

(* structure_content on slides with and without vocabulary keywords        *)

MaxKeywordSlides == 2

\* content lists as the extractor yields them: prose with one keyword, with
\* several, with 'structure' only, with none, with a keyword that only the
\* rendering of a tab produces, with a keyword below a generic title, with
\* 'structure' beside another keyword, and a bullet list
KeywordContents ==
    { << <<"O", "u", "r", " ", "D", "a", "t", "a">> >>,
      << <<"C", "H", "A", "R", "T">>, <<"a", " ", "m", "o", "d", "e", "l">> >>,
      << <<"s", "t", "r", "u", "c", "t", "u", "r", "e">> >>,
      << <<"H", "i", ".">>, <<"a", "b">> >>,
      << <<"p", "l", "a", "n">> >>,
      << <<"a", "\t", "i", "m", "e", "l", "i", "n", "e">> >>,
      << <<"B", "i", "g", ".">>, <<"r", "a", "w", " ", "d", "a", "t", "a">> >>,
      << <<"S", "t", "r", "u", "c", "t", "u", "r", "e", " ", "o", "f", " ",
           "g", "r", "o", "w", "t", "h">> >>,
      << <<"-", " ", "a">>, <<"-", " ", "b">> >> }

InitKeywords ==
    /\ prs = <<>>
    /\ \E cs \in SeqsUpTo(KeywordContents, MaxKeywordSlides) :
          slides_content = [i \in 1..Len(cs) |-> [slide_number |-> i, content |-> cs[i]]]
    /\ structured_slides = <<>>
    /\ pc = "structure"
    /\ evaluated = {}
    /\ text = <<>>
    /\ ret = NoRet
    /\ InitProcessor
    /\ InitScorer

SpecKeywords == InitKeywords /\ [][NextStructure]_vars

---------------------------------------------------------------------------

(* Properties                                                              *)

\* the combined text of the i-th slide handed to structure_content
CombinedOf(i) == join(<<"\n">>, slides_content[i].content)

\* the slide whose analysis ran last: the one that raised, else the last appended
LastAnalyzed == IF pc = "raised" THEN Len(structured_slides) + 1 ELSE Len(structured_slides)

VariantTags == {"empty", "table", "bullet_list", "structured_text"}

\* C1: structuring is total: for every content _analyze_and_structure_text
\* returns without raising, the title of every record is non-empty, and the
\* points of a bullet_list and the content of a structured_text are non-empty.
C1_Totality ==
    /\ pc # "raised"
    /\ \A i \in 1..Len(structured_slides) :
          LET sc == structured_slides[i].structured_content
          IN  /\ sc.title # <<>>
              /\ sc.type = "bullet_list" => sc.points # <<>>
              /\ sc.type = "structured_text" => sc.content # <<>>

\* C2: structure_content is 1:1 and order-preserving: once it has ended the
\* output is as long as the input, and the i-th record carries the slide
\* number of the i-th input slide and exactly one of the four variant tags.
C2_OneToOne ==
    /\ Len(structured_slides) <= Len(slides_content)
    /\ \A i \in 1..Len(structured_slides) :
          /\ structured_slides[i].slide_number = slides_content[i].slide_number
          /\ structured_slides[i].structured_content.type \in VariantTags
    /\ pc \in {"structured", "raised"} => Len(structured_slides) = Len(slides_content)

\* number of occurrences of the character c in s
CountOf(s, c) == Cardinality({i \in 1..Len(s) : s[i] = c})

\* some line of t holds the character c twice
TwoOnOneLine(t, c) ==
    LET lines == split(t, "\n")
    IN  \E k \in 1..Len(lines) : CountOf(lines[k], c) >= 2

\* a colon whose next character that is not whitespace is a digit
ColonThenDigits(t) ==
    \E i \in 1..Len(t) :
        /\ t[i] = ":"
        /\ LET rest == lstrip(SubSeq(t, i + 1, Len(t)))
           IN  rest # <<>> /\ Head(rest) \in Digits

\* length of the trailing run of digits
RECURSIVE TrailingDigits(_)
TrailingDigits(s) ==
    IF s # <<>> /\ s[Len(s)] \in Digits
    THEN 1 + TrailingDigits(SubSeq(s, 1, Len(s) - 1))
    ELSE 0

\* a percent sign preceded by digits, a period and digits
DecimalPercentage(t) ==
    \E i \in 1..Len(t) :
        /\ t[i] = "%"
        /\ LET frac == TrailingDigits(SubSeq(t, 1, i - 1))
               dot == i - 1 - frac
           IN  frac >= 1 /\ dot >= 2 /\ t[dot] = "." /\ t[dot - 1] \in Digits

\* the tabular test as the claim words it
TabularSignal(t) ==
    \/ TwoOnOneLine(t, "\t")
    \/ TwoOnOneLine(t, "|")
    \/ ColonThenDigits(t)
    \/ DecimalPercentage(t)

\* C3: tabular priority: a slide whose combined text satisfies the tabular
\* test is a table even when more than 30% of its lines are marked; the bullet
\* test is consulted only when the tabular test fails, and a slide is prose
\* only when both tests fail.
C3_TabularPriority ==
    /\ \A i \in 1..Len(structured_slides) :
          LET sc == structured_slides[i].structured_content
              t == CombinedOf(i)
          IN  /\ (slides_content[i].content # <<>> /\ TabularSignal(t))
                    => sc.type = "table"
              /\ sc.type = "bullet_list" => ~TabularSignal(t)
              /\ sc.type = "structured_text"
                    => ~TabularSignal(t) /\ ~_has_bullet_points(t)
    /\ LastAnalyzed >= 1
          => (("_has_bullet_points" \in evaluated
                  \/ "_structure_paragraphs" \in evaluated)
              => ~TabularSignal(CombinedOf(LastAnalyzed)))

\* a table made of a text that passes both the tabular and the bullet test
C3_Witness ==
    \E i \in 1..Len(structured_slides) :
        /\ TabularSignal(CombinedOf(i))
        /\ _has_bullet_points(CombinedOf(i))
        /\ structured_slides[i].structured_content.type = "table"

\* number of lines of t: one more than its newlines
NumLines(t) == 1 + CountOf(t, "\n")

\* Number of lines of t that begin with a bullet symbol, one blank and a
\* character that is not whitespace (the marked lines of a text whose lines
\* carry no indentation and only symbol markers).
MarkerStarts(t) ==
    Cardinality({i \in 1..(Len(t) - 2) :
                    /\ i = 1 \/ t[i - 1] = "\n"
                    /\ t[i] \in BulletSymbols
                    /\ t[i + 1] = " "
                    /\ t[i + 2] \notin Whitespace})

\* C4: the bullet threshold is strict: a block is classified as bulleted
\* exactly when its marked lines number strictly more than 30% of its lines;
\* 3 marked lines of 10 give prose, 4 of 10 give bulleted.
C4_StrictThreshold ==
    pc = "returned"
        => /\ ret.value <=> (10 * MarkerStarts(text) > 3 * NumLines(text))
           /\ (NumLines(text) = 10 /\ MarkerStarts(text) = 3) => ~ret.value
           /\ (NumLines(text) = 10 /\ MarkerStarts(text) = 4) => ret.value

\* a block of 10 lines, 3 of them marked, found not bulleted and not tabular
C4_Witness ==
    /\ pc = "returned"
    /\ NumLines(text) = 10
    /\ MarkerStarts(text) = 3
    /\ ~ret.value
    /\ ~_is_tabular_data(text)

\* the marked lines of t, trimmed, in order
MarkedLines(t) == SelectSeq(StripAll(split(t, "\n")), IsMarked)

\* a marked line without its marker
Unmark(line) ==
    RemovePrefix(line, MatchSymbol(line) + MatchNumber(line) + MatchLetter(line))

\* t has a marked line, and every unmarked non-empty line of t comes before
\* the first marked one
HeadersOnly(t) ==
    LET lines == StripAll(split(t, "\n"))
    IN  \E f \in 1..Len(lines) :
            /\ IsMarked(lines[f])
            /\ \A k \in (f + 1)..Len(lines) : lines[k] = <<>> \/ IsMarked(lines[k])

\* C5: header-before-first-bullet rule: the unmarked non-empty lines before
\* the first marked line are dropped and the marked lines are kept without
\* their marker, so a text whose unmarked lines all come before its first
\* marker yields exactly its marked lines, unmarked; "Overview\n- Point A\n-
\* Point B" yields ["Point A", "Point B"].
C5_HeaderDropped ==
    pc # "call"
        => /\ HeadersOnly(text)
                => /\ ret.exc = "none"
                   /\ ret.value = [i \in 1..Len(MarkedLines(text)) |->
                                       Unmark(MarkedLines(text)[i])]
           /\ text = OverviewText => ret.value = OverviewPoints

\* C6: sentinel fallback: for a text none of whose lines is marked the bullet
\* parser returns exactly ["Content point"], and it never returns an empty
\* sequence.
C6_Sentinel ==
    pc # "call"
        => /\ MarkedLines(text) = <<>>
                => ret.exc = "none" /\ ret.value = <<ContentPoint>>
           /\ ret.exc = "none" => ret.value # <<>>

HasTwoCells(row) == Len(row) >= 2

\* C7: table row filtering without caps: the first non-empty line is dropped,
\* and rows is exactly the sequence, in input order, of the cell lists of the
\* remaining non-empty lines that split into two or more cells.
C7_TableRows ==
    pc = "returned"
        => LET lines == SelectSeq(StripAll(split(text, "\n")), NonEmpty)
               rest == IF lines = <<>> THEN <<>> ELSE Tail(lines)
               cells == [i \in 1..Len(rest) |-> SplitRow(rest[i])]
           IN  /\ ret.value = SelectSeq(cells, HasTwoCells)
               /\ \A k \in 1..Len(ret.value) : Len(ret.value[k]) >= 2
               /\ Len(ret.value) = Cardinality({i \in 1..Len(rest) : Len(cells[i]) >= 2})

\* rows returned while a later line of a single cell gave none
C7_Witness ==
    /\ pc = "returned"
    /\ Len(ret.value) >= 1
    /\ LET lines == SelectSeq(StripAll(split(text, "\n")), NonEmpty)
       IN  /\ Len(lines) - 1 > Len(ret.value)
           /\ \E i \in 2..Len(lines) : Len(SplitRow(lines[i])) = 1

\* C8: the slide text "Q1 Report\nRevenue: 500\nCost: 300\nMargin: 40.0%"
\* is structured as a table titled "Q1 Report" whose rows are the three
\* remaining lines split on the colon.
C8_Q1Scenario ==
    \A i \in 1..Len(structured_slides) :
        CombinedOf(i) = Q1Text
            => LET sc == structured_slides[i].structured_content
               IN  /\ sc.type = "table"
                   /\ sc.title = Q1Title
                   /\ sc.data = Q1Rows

\* the keyword occurs in rendering, letter case disregarded
Occurs(keyword, rendering) ==
    \E i \in 0..(Len(rendering) - Len(keyword)) :
        \A j \in 1..Len(keyword) : lower(<<rendering[i + j]>>) = <<keyword[j]>>

\* the distinct keywords of the vocabulary that occur in the rendering of sc
KeywordHits(sc) ==
    Cardinality({k \in 1..Len(image_keywords) : Occurs(image_keywords[k], str(sc))})

\* C9: image-need rule: needs_image is true for every table and bullet_list
\* record; for a structured_text record it is true exactly when at least 2
\* distinct keywords occur, case-insensitively, in the rendering of its
\* structured content.
C9_ImageNeed ==
    \A i \in 1..Len(structured_slides) :
        LET r == structured_slides[i]
        IN  /\ r.structured_content.type \in {"table", "bullet_list"} => r.needs_image
            /\ r.structured_content.type = "structured_text"
                  => (r.needs_image <=> KeywordHits(r.structured_content) >= 2)

\* a prose record that needs an image next to one that does not, or a prose
\* record that needs one in a deck of one slide
C9_Witness ==
    \E i \in 1..Len(structured_slides) :
        /\ structured_slides[i].structured_content.type = "structured_text"
        /\ structured_slides[i].needs_image
        /\ KeywordHits(structured_slides[i].structured_content) = 2

\* no shape of the slide has text other than whitespace
NoUsableText(slide) ==
    \A k \in 1..Len(slide) :
        ~slide[k].has_text \/ \A j \in 1..Len(slide[k].text) : slide[k].text[j] \in Whitespace

\* C10: empty short-circuit: a slide with no usable text is structured as the
\* empty variant titled "Empty Slide", and its analysis evaluates neither the
\* tabular test, the bullet test nor any parser.
C10_EmptyShortCircuit ==
    /\ \A i \in 1..Len(structured_slides) :
          NoUsableText(prs[i])
              => structured_slides[i].structured_content
                     = [type |-> "empty", title |-> EmptySlideTitle, data |-> <<>>]
    /\ (pc \in {"structure", "structured", "raised"} /\ LastAnalyzed >= 1
            /\ NoUsableText(prs[LastAnalyzed]))
          => pc # "raised" /\ evaluated = {}

\* an empty record made of a slide that has shapes, whitespace in one of them
C10_Witness ==
    /\ pc = "structure"
    /\ LastAnalyzed >= 1
    /\ NoUsableText(prs[LastAnalyzed])
    /\ \E k \in 1..Len(prs[LastAnalyzed]) :
          prs[LastAnalyzed][k].has_text /\ prs[LastAnalyzed][k].text # <<>>
    /\ structured_slides[LastAnalyzed].structured_content.type = "empty"
    /\ evaluated = {}

\* a path of an image file saved under pics: fetched, generated or placeholder
IsImageFile(path) ==
    /\ path # None
    /\ path.dir = "pics"
    /\ path.stem \in {"unsplash_image_slide_", "openai_image_slide_",
                      "placeholder_image_slide_"}

\* C11: when generate_images_for_slides has returned, every record has an
\* image_path; it is None exactly when needs_image is false, and otherwise
\* the path of an image file that exists, whatever keys are configured and
\* whatever the remote calls did.
C11_ImageAlways ==
    pc = "render" =>
        \A i \in 1..Len(structured_slides) :
            LET slide == structured_slides[i]
            IN  /\ HasImagePath(slide)
                /\ (slide.image_path = None) <=> ~slide.needs_image
                /\ slide.needs_image =>
                      /\ IsImageFile(slide.image_path)
                      /\ slide.image_path \in files

\* with an Unsplash key configured, a slide got the placeholder (the search
\* or the download failed, or found nothing) beside a slide that needs none
C11_Witness ==
    /\ pc = "render"
    /\ self.unsplash_api_key
    /\ \E i \in 1..Len(structured_slides) :
          /\ structured_slides[i].needs_image
          /\ structured_slides[i].image_path.stem = "placeholder_image_slide_"
    /\ \E i \in 1..Len(structured_slides) : ~structured_slides[i].needs_image

\* the 1-based positions of the slides of the b-th batch
SlidesOfBatch(b) ==
    {k \in 1..Len(slide_texts) : (k - 1) \div BatchSize = b - 1}

NumBatches == (Len(slide_texts) + BatchSize - 1) \div BatchSize

\* C12: when get_slide_scores has returned, no exception has left it, every
\* batch had its scoring call, each slide of a batch whose call raised has the
\* neutral score 5, and there is exactly one score per slide.
C12_ScorerFailureAbsorbed ==
    pc = "scored" =>
        /\ ret.exc = "none"
        /\ Len(calls) = NumBatches
        /\ Len(ret.value) = Len(slide_texts)
        /\ \A b \in 1..Len(calls) :
              calls[b].raised => \A k \in SlidesOfBatch(b) : ret.value[k] = NeutralScore

\* the input file is missing, or the deck read from it has no slide
BadInput == input_pptx_path \notin files \/ Len(prs) = 0

\* C13: with a missing input file or a deck of zero slides, an entry point
\* (process_pptx, process_presentation) gets no further than opening and
\* reading the deck before it raises: no slide is scored or structured, no
\* later stage is entered and no output is saved.
C13_FailFast ==
    BadInput =>
        /\ pc \in {"open", "extract", "process_pptx", "raised"}
        /\ calls = <<>>
        /\ structured_slides = <<>>
        /\ output_pptx_path \notin files

\* number of lines of t that are not blank
NumNonEmptyLines(t) == Len(SelectSeq(StripAll(split(t, "\n")), NonEmpty))

\* C14: bullet density is measured over the non-empty lines: a block is
\* classified as bulleted exactly when its marked lines number more than 30%
\* of its non-empty lines, so blank lines never change the classification.
C14_DensityOverNonEmpty ==
    (pc = "returned" /\ ret.fn = "_has_bullet_points")
        => (ret.value <=> (10 * MarkerStarts(text) > 3 * NumNonEmptyLines(text)))

\* The points due to the lines of t from its first marked line on: each
\* non-empty line trimmed, in order, a marked one without its marker.
PointsFromFirstMarker(t) ==
    LET lines == SelectSeq(StripAll(split(t, "\n")), NonEmpty)
        first == CHOOSE f \in 1..Len(lines) :
                     IsMarked(lines[f]) /\ \A k \in 1..(f - 1) : ~IsMarked(lines[k])
    IN  [i \in 1..(Len(lines) - first + 1) |->
            LET line == lines[first + i - 1]
            IN  IF IsMarked(line) THEN Unmark(line) ELSE line]

IsSuffix(s, t) == Len(s) <= Len(t) /\ SubSeq(t, Len(t) - Len(s) + 1, Len(t)) = s

\* C15: unmarked lines after the first marker are kept: when the bullet
\* parser returns for a text with a marked line, its points end with one
\* point for each non-empty line from the first marked line on, in input
\* order, an unmarked line verbatim (trimmed) even when its text equals that
\* of an earlier line.
C15_UnmarkedKept ==
    (pc = "returned" /\ ret.fn = "_extract_bullet_points" /\ MarkedLines(text) # <<>>)
        => IsSuffix(PointsFromFirstMarker(text), ret.value)

Has(line, c) == \E i \in 1..Len(line) : line[i] = c

\* the pieces of line between the positions of breaks, in order
CellsAt(line, breaks) ==
    LET at == Sorted(breaks)
    IN  [k \in 1..(Len(at) + 1) |->
            SubSeq(line,
                   IF k = 1 THEN 1 ELSE at[k - 1] + 1,
                   IF k = Len(at) + 1 THEN Len(line) ELSE at[k] - 1)]

\* the positions of line that hold a colon or lie in a run of two or more
\* whitespace characters
ColonsAndGaps(line) ==
    {i \in 1..Len(line) :
        \/ line[i] = ":"
        \/ /\ line[i] \in Whitespace
           /\ \/ i > 1 /\ line[i - 1] \in Whitespace
              \/ i < Len(line) /\ line[i + 1] \in Whitespace}

\* the cells of a line by the priority tab, pipe, gap or colon
CellsByPriority(line) ==
    IF Has(line, "\t")
    THEN StripAll(CellsAt(line, {i \in 1..Len(line) : line[i] = "\t"}))
    ELSE IF Has(line, "|")
    THEN StripAll(CellsAt(line, {i \in 1..Len(line) : line[i] = "|"}))
    ELSE SelectSeq(StripAll(CellsAt(line, ColonsAndGaps(line))), NonEmpty)

\* C16: separator priority: each non-empty line after the first is cut at
\* its tabs if it has one, else at its pipes if it has one, else at its runs
\* of two or more blanks and its colons; every cell is trimmed; the rows
\* returned are those of two or more cells.
C16_SeparatorPriority ==
    (pc = "returned" /\ ret.fn = "_parse_table_data")
        => LET lines == SelectSeq(StripAll(split(text, "\n")), NonEmpty)
               rest == IF lines = <<>> THEN <<>> ELSE Tail(lines)
               cells == [i \in 1..Len(rest) |-> CellsByPriority(rest[i])]
           IN  /\ ret.value = SelectSeq(cells, HasTwoCells)
               /\ \A r \in 1..Len(ret.value) : \A c \in 1..Len(ret.value[r]) :
                      strip(ret.value[r][c]) = ret.value[r][c]

\* a line with a tab and a pipe gave a row cut at the tab, the pipe left
\* inside a cell
C16_Witness ==
    /\ pc = "returned"
    /\ ret.fn = "_parse_table_data"
    /\ \E r \in 1..Len(ret.value) :
          /\ Len(ret.value[r]) = 2
          /\ \E c \in 1..2 : Has(ret.value[r][c], "|")

\* the positions of t that hold a newline next to another newline
BlankLineBoundaries(t) ==
    {i \in 1..Len(t) :
        /\ t[i] = "\n"
        /\ \/ i > 1 /\ t[i - 1] = "\n"
           \/ i < Len(t) /\ t[i + 1] = "\n"}

\* the non-empty trimmed pieces of t between the positions of breaks
Segments(t, breaks) == SelectSeq(StripAll(CellsAt(t, breaks)), NonEmpty)

FirstLine(i) == split(CombinedOf(i), "\n")[1]

\* C18: the title comes from the first text line: for a slide with text
\* whose first line is shorter than 80 characters and does not end with a
\* period, the title of the record is that line, a single line.
C18_TitleFirstLine ==
    \A i \in 1..Len(structured_slides) :
        (/\ slides_content[i].content # <<>>
         /\ Len(FirstLine(i)) < TitleMaxLen
         /\ ~endswith(FirstLine(i), "."))
            => /\ structured_slides[i].structured_content.title = FirstLine(i)
               /\ ~Has(structured_slides[i].structured_content.title, "\n")

\* the generic label of a variant
GenericTitle(type) ==
    IF type = "table" THEN DataTableLabel
    ELSE IF type = "bullet_list" THEN KeyPointsTitle
    ELSE ContentLabel

\* C19: the generic title matches the content kind: for a slide with text
\* whose first line has 80 characters or more, or ends with a period, the
\* title is "Data Table" for a table, "Key Points" for a bullet list and
\* "Content" for prose.
C19_GenericTitleByKind ==
    \A i \in 1..Len(structured_slides) :
        (/\ slides_content[i].content # <<>>
         /\ Len(FirstLine(i)) >= TitleMaxLen \/ endswith(FirstLine(i), "."))
            => LET sc == structured_slides[i].structured_content
               IN  sc.title = GenericTitle(sc.type)

\* the texts, trimmed, of the shapes of a slide that have a text which is not
\* blank, in shape order
KeptShapeTexts(slide) ==
    LET kept == {k \in 1..Len(slide) :
                    slide[k].has_text
                    /\ \E j \in 1..Len(slide[k].text) : slide[k].text[j] \notin Whitespace}
        order == Sorted(kept)
    IN  [n \in 1..Len(order) |-> strip(slide[order[n]].text)]

\* C20: extraction keeps the separation of shapes: the texts kept for a
\* slide are those of its shapes with text that is not blank, trimmed, in
\* shape order, and they reach the parsers apart, so that a prose slide of
\* single-line shapes gets one paragraph per kept shape.
C20_ShapeSeparation ==
    \A i \in 1..Len(structured_slides) :
        LET content == slides_content[i].content
            sc == structured_slides[i].structured_content
        IN  /\ content = KeptShapeTexts(prs[i])
            /\ (/\ sc.type = "structured_text"
                /\ \A k \in 1..Len(content) : ~Has(content[k], "\n"))
                   => sc.content = content

\* the positions of process_presentation after structure_content has returned
AfterStructuring == {"structured", "images", "render", "summary", "done"}

AfterImages == {"render", "summary", "done"}

\* the stages in strict sequence: image paths are set only once every slide
\* of the deck has its record, and rendering has begun only when every record
\* has its image_path
StagesInSequence ==
    /\ (\E i \in 1..Len(structured_slides) : HasImagePath(structured_slides[i]))
          => pc \in AfterStructuring \ {"structured"}
    /\ pc \in AfterStructuring
          => /\ Len(structured_slides) = Len(prs)
             /\ \A i \in 1..Len(prs) : structured_slides[i].slide_number = i
    /\ pc \in AfterImages
          => \A i \in 1..Len(structured_slides) : HasImagePath(structured_slides[i])
    /\ output # <<>> => pc \in {"summary", "done"}

\* a step after structuring leaves the records in place, with their
\* slide_number and structured_content, and adds no field but image_path
RecordsKept ==
    pc \in AfterStructuring
        => /\ Len(structured_slides') = Len(structured_slides)
           /\ \A i \in 1..Len(structured_slides) :
                 /\ structured_slides'[i].slide_number = structured_slides[i].slide_number
                 /\ structured_slides'[i].structured_content
                        = structured_slides[i].structured_content
                 /\ structured_slides'[i].needs_image = structured_slides[i].needs_image
                 /\ DOMAIN structured_slides[i] \subseteq DOMAIN structured_slides'[i]
                 /\ DOMAIN structured_slides'[i]
                        \subseteq DOMAIN structured_slides[i] \cup {"image_path"}

\* C21: strict stage hand-off in process_presentation: the image stage works
\* only after every slide has been structured, rendering only after every
\* record has its image_path, and once structure_content has returned no
\* step changes a record's slide_number or structured_content or writes a
\* field other than image_path.
C21_StageHandOff == []StagesInSequence /\ [][RecordsKept]_vars

\* rendering is about to start on two records, one with an image file and
\* one with None
C21_Witness ==
    /\ pc = "render"
    /\ Len(structured_slides) = 2
    /\ \E i \in 1..2 : structured_slides[i].image_path # None
    /\ \E i \in 1..2 : structured_slides[i].image_path = None

StructureKeyword == <<"s", "t", "r", "u", "c", "t", "u", "r", "e">>

\* the keywords of the vocabulary, other than 'structure', that occur in the
\* title or in a paragraph of a prose record, letter case disregarded
OwnKeywords(sc) ==
    {k \in 1..Len(image_keywords) :
        /\ image_keywords[k] # StructureKeyword
        /\ \/ Occurs(image_keywords[k], sc.title)
           \/ \E p \in 1..Len(sc.content) : Occurs(image_keywords[k], sc.content[p])}

\* C22: the keyword count is taken over the rendering of the whole record,
\* so the tag 'structured_text' always gives one hit, for 'structure',
\* beside those of the record's own text: a prose record whose title and
\* paragraphs hold exactly one other keyword needs an image, and a prose
\* record needs none only when its title and paragraphs hold no other keyword.
C22_TagCountsAsKeyword ==
    \A i \in 1..Len(structured_slides) :
        LET r == structured_slides[i]
            sc == r.structured_content
        IN  sc.type = "structured_text"
                => /\ Occurs(StructureKeyword, str(sc))
                   /\ KeywordHits(sc) >= 1 + Cardinality(OwnKeywords(sc))
                   /\ Cardinality(OwnKeywords(sc)) = 1 => r.needs_image
                   /\ ~r.needs_image => OwnKeywords(sc) = {}

\* a prose record with exactly one keyword of its own that needs an image,
\* next to a prose record with none that needs no image
C22_Witness ==
    /\ \E i \in 1..Len(structured_slides) :
          /\ structured_slides[i].structured_content.type = "structured_text"
          /\ Cardinality(OwnKeywords(structured_slides[i].structured_content)) = 1
          /\ structured_slides[i].needs_image
    /\ \E i \in 1..Len(structured_slides) :
          /\ structured_slides[i].structured_content.type = "structured_text"
          /\ OwnKeywords(structured_slides[i].structured_content) = {}
          /\ ~structured_slides[i].needs_image


\* the ratings the code parses from the reply to the b-th batch; none when
\* the scoring call of that batch raised
RatingsOfBatch(b) ==
    IF calls[b].raised
    THEN {}
    ELSE LET batch_scores == ParseScores(strip(calls[b].content))
         IN  {batch_scores[j] : j \in 1..Len(batch_scores)}

\* C23: when get_slide_scores has returned, whatever the replies were, the
\* score at each index k is the neutral 5 or a rating parsed from the reply
\* to the batch that contains slide k; no slide holds a rating that only the
\* reply to another batch contains.
C23_ScoresAligned ==
    pc = "scored" =>
        \A b \in 1..Len(calls) :
            \A k \in SlidesOfBatch(b) :
                \/ ret.value[k] = NeutralScore
                \/ ret.value[k] \in RatingsOfBatch(b)

===========================================================================
